---- MODULE Spec2Model ----
(***************************************************************************)
(* rnr-pay: reconciliation of M-Pesa push-payment evidence for one ticket. *)
(*                                                                         *)
(* The store holds one ticket document (collection 'tickets') and the      *)
(* append-only audit collection 'transactions'.  Five server handlers read *)
(* and write it: the webhook POST, checkTransactionStatus (manual poll),   *)
(* handlePaymentInitiation, processAndSendTicketEmail (automatic receipt)  *)
(* and resendTicketEmailAction.  Every `await` of a handler that touches   *)
(* the store is one step of the model, so that handlers of different       *)
(* requests interleave exactly where the code can be suspended.            *)
(*                                                                         *)
(* Abstractions: one ticket, which exists; store calls do not fail;        *)
(* serverTimestamp() is the token "serverTimestamp"; a parsed              *)
(* TransactionDate is represented by the date string it was parsed from.   *)
(***************************************************************************)
EXTENDS Integers, Sequences, FiniteSets, Bags, TLC

VARIABLES
    ticket,         \* the document tickets/<ticketId>
    transactions,   \* the 'transactions' collection, in insertion order
    webhookCalls,   \* bag of POST invocations (running and returned)
    pollCalls,      \* bag of checkTransactionStatus invocations
    initCalls,      \* bag of handlePaymentInitiation invocations
    dispatchCalls,  \* bag of processAndSendTicketEmail invocations
    resendCalls,    \* bag of resendTicketEmailAction invocations
    gatewayRequests,\* number of transaction_request_ids the gateway has issued
    client,         \* the PaymentDisplay component subscribed to the ticket
    budget          \* invocations each entry point may still receive

vars == <<ticket, transactions, webhookCalls, pollCalls, initCalls,
          dispatchCalls, resendCalls, gatewayRequests, client, budget>>

NULL == "null"

(* ------------------------------ bounds -------------------------------- *)
MaxWebhook == 2
MaxPoll == 1
MaxInit == 1
MaxDispatch == 2
MaxResend == 1
MaxSeqWebhook == 3
MaxSeqInit == 2

(* ------------------------- values of the inputs ----------------------- *)
\* The ticket whose handlers are followed, and another ticket the page may be
\* given later.
TicketId == "T-1"
OtherTicketId == "T-2"
UserPhone == "0712345678"
UserEmail == "user@example.com"

\* stkCallback objects accepted by UmeskiaWebhookPayloadSchema whose
\* TransactionReference names the ticket.
CallbackSuccess1 ==
    [ResponseCode |-> 0, ResponseDescription |-> "Success",
     TransactionReceipt |-> "ABC123", TransactionAmount |-> 500,
     Msisdn |-> "254712345678", TransactionDate |-> "20210421114425"]
CallbackSuccess2 ==
    [ResponseCode |-> 0, ResponseDescription |-> "Success",
     TransactionReceipt |-> "XYZ789", TransactionAmount |-> 500,
     Msisdn |-> NULL, TransactionDate |-> NULL]
CallbackFailure ==
    [ResponseCode |-> 1, ResponseDescription |-> "Request cancelled by user",
     TransactionReceipt |-> NULL, TransactionAmount |-> 0,
     Msisdn |-> NULL, TransactionDate |-> NULL]
StkCallbacks == {CallbackSuccess1, CallbackSuccess2, CallbackFailure}

\* Answers of the gateway's /transactionstatus endpoint.
StatusCompleted ==
    [ResultCode |-> "200", TransactionStatus |-> "Completed", TransactionCode |-> "0",
     ResultDesc |-> "Transaction completed", TransactionReceipt |-> "ABC123", TransactionAmount |-> 500,
     Msisdn |-> "254712345678", TransactionDate |-> "20210421114425"]
StatusPending ==
    [ResultCode |-> "200", TransactionStatus |-> "Pending", TransactionCode |-> "1",
     ResultDesc |-> "Transaction pending", TransactionReceipt |-> NULL, TransactionAmount |-> 0,
     Msisdn |-> NULL, TransactionDate |-> NULL]
StatusNotFound ==
    [ResultCode |-> "404", TransactionStatus |-> NULL, TransactionCode |-> NULL,
     ResultDesc |-> "Transaction not found", TransactionReceipt |-> NULL, TransactionAmount |-> 0,
     Msisdn |-> NULL, TransactionDate |-> NULL]
StatusAnswers == {StatusCompleted, StatusPending, StatusNotFound}
\* The gateway reports that the payment failed.
StatusFailed ==
    [ResultCode |-> "200", TransactionStatus |-> "Failed", TransactionCode |-> "1032",
     ResultDesc |-> "Request cancelled by user", TransactionReceipt |-> NULL,
     TransactionAmount |-> 0, Msisdn |-> NULL, TransactionDate |-> NULL]
NoAnswer == StatusNotFound

(* ------------------------------ helpers ------------------------------- *)
\* JavaScript `a || b` on optional strings (NULL is the absent, falsy value).
\* An absent amount is 0, which `TransactionAmount || null` also maps to null.
OrElse(a, b) == IF a = NULL THEN b ELSE a

\* parsedTransactionDate instanceof Date ? parsedTransactionDate : serverTimestamp()
ParsedTransactionDate(d) == IF d = NULL THEN "serverTimestamp" ELSE d

RECURSIVE SumCopies(_, _)
SumCopies(S, b) ==
    IF S = {} THEN 0
    ELSE LET c == CHOOSE x \in S : TRUE
         IN CopiesIn(c, b) + SumCopies(S \ {c}, b)

\* Number of invocations in bag b that satisfy P.
Count(b, P(_)) == SumCopies({c \in BagToSet(b) : P(c)}, b)

Put(b, c) == b (+) SetToBag({c})
Replace(b, c, d) == (b (-) SetToBag({c})) (+) SetToBag({d})

Running(b) == {c \in BagToSet(b) : c.pc # "done"}

\* No handler is part-way through its steps.
Quiescent ==
    /\ Running(webhookCalls) = {}
    /\ Running(pollCalls) = {}
    /\ Running(initCalls) = {}
    /\ Running(dispatchCalls) = {}
    /\ Running(resendCalls) = {}

\* The receipt fields of the ticket.
Receipt(t) == <<t.mpesaReceiptNumber, t.mpesaAmountPaid, t.mpesaPhoneNumber,
                t.mpesaTransactionTimestamp>>

(* ------------------------------- store -------------------------------- *)
InitialTicket ==
    [status |-> "created", phone |-> NULL, email |-> NULL, emailSent |-> FALSE,
     umeskiaTransactionRequestId |-> 0, mpesaResultDesc |-> NULL,
     mpesaReceiptNumber |-> NULL, mpesaAmountPaid |-> 0, mpesaPhoneNumber |-> NULL,
     mpesaTransactionTimestamp |-> NULL, errorDetails |-> NULL,
     lastEmailAttemptAt |-> NULL, lastEmailError |-> NULL, resentEmailCount |-> 0]

\* Faulty variant, for C16: the entry is stored under a fixed document id, so
\* that a new entry replaces the previous one.
AddDoc_FixedId(log, entry) == <<entry>>

\* addDoc(collection(db, 'transactions'), entry): a new document with a fresh
\* id; no handler updates or deletes a document of the collection.
AddDoc(log, entry) == Append(log, entry)

\* The audit entries, by their 'type' and (where the code sets one) 'status'.
\* Faulty variant, for C4: the duplicate is logged like an applied callback.
IgnoredCallbackEntry_AsCallback ==
    [type |-> "umeskia_mpesa_callback", status |-> "confirmed"]

IgnoredCallbackEntry ==
    [type |-> "umeskia_mpesa_callback_ignored_already_confirmed", status |-> NULL]
CallbackEntry(paymentStatus) == [type |-> "umeskia_mpesa_callback", status |-> paymentStatus]
StatusCheckEntry == [type |-> "mpesa_status_check_api", status |-> NULL]
StatusConfirmedEntry == [type |-> "umeskia_mpesa_status_confirmed", status |-> "confirmed"]
InitiationEntry == [type |-> "mpesa_stk_initiation", status |-> "initiated_stk_push"]

\* updateDoc(ticketRef, data): the named fields are overwritten, whatever the
\* document holds at that moment; the write carries no precondition.
UpdateDoc(t, data) ==
    [f \in DOMAIN t |-> IF f \in DOMAIN data THEN data[f] ELSE t[f]]

\* onSnapshot(ticketDocRef, ...): every write of the ticket emits a snapshot to
\* a subscribed client.
EmitSnapshot(cl) ==
    IF cl.subscribed /\ cl.ticketId = TicketId THEN [cl EXCEPT !.snapshotPending = TRUE]
    ELSE cl

\* The other ticket: created, and no handler ever writes it.
OtherTicket == InitialTicket

\* doc(db, 'tickets', ticketId): the document the component reads.
TicketOf(cl) == IF cl.ticketId = TicketId THEN ticket ELSE OtherTicket

(* ---------------------- webhook: POST (part_007) ---------------------- *)
\* Faulty variant, for C3: a handler with no already-confirmed guard, as in the
\* earlier src/app/api/payment-webhook/route.ts.
WebhookAlreadyConfirmed_NoGuard(currentTicketData) == FALSE

WebhookAlreadyConfirmed(currentTicketData) == currentTicketData.status = "confirmed"

\* Faulty variant, for C17: the test of the response code is inverted.
PaymentStatus_Inverted(ResponseCode) == IF ResponseCode = 0 THEN "failed" ELSE "confirmed"

PaymentStatus(ResponseCode) == IF ResponseCode = 0 THEN "confirmed" ELSE "failed"

WebhookTicketUpdateData(stkCallback, currentTicketData) ==
    [status |-> PaymentStatus(stkCallback.ResponseCode),
     mpesaResultDesc |-> stkCallback.ResponseDescription,
     mpesaReceiptNumber |-> stkCallback.TransactionReceipt,
     mpesaAmountPaid |-> stkCallback.TransactionAmount,
     mpesaPhoneNumber |-> OrElse(stkCallback.Msisdn, currentTicketData.phone),
     mpesaTransactionTimestamp |-> ParsedTransactionDate(stkCallback.TransactionDate)]

\* The payload is parsed and validated, the ticket is read (getDoc), and the
\* handler is suspended at its next await: the audit entry of the ignored
\* duplicate, or the update of the ticket.
\* TransactionIDs are the values the optional TransactionID of the callback
\* may take (0: absent); the handler copies it and never compares it.
WebhookReceiveWith(TransactionIDs) ==
    /\ budget.webhook > 0
    /\ \E stkCallback \in StkCallbacks, TransactionID \in TransactionIDs :
         LET currentTicketData == [status |-> ticket.status, phone |-> ticket.phone]
         IN webhookCalls' = Put(webhookCalls,
              [pc |-> IF WebhookAlreadyConfirmed(currentTicketData)
                      THEN "addDocIgnored" ELSE "updateDoc",
               stkCallback |-> stkCallback, TransactionID |-> TransactionID,
               currentTicketData |-> currentTicketData,
               addDocs |-> 0, applied |-> FALSE, overwrote |-> FALSE,
               payload |-> "valid", threw |-> FALSE, response |-> 0])
    /\ budget' = [budget EXCEPT !.webhook = @ - 1]
    /\ UNCHANGED <<ticket, transactions, pollCalls, initCalls, dispatchCalls,
                   resendCalls, gatewayRequests, client>>

\* A callback that carries no TransactionID.
WebhookReceive == WebhookReceiveWith({0})

\* The requests that end before the ticket is looked at or found: a body that
\* is no JSON (request.json() throws, the catch block answers), a payload that
\* UmeskiaWebhookPayloadSchema rejects, a callback without TransactionReference,
\* and a TransactionReference that names no ticket.
WebhookRejections == {"unparseable", "invalid", "noReference", "unknownTicket"}

\* The HTTP status of the answer to such a request.
RejectionResponse(payload) == IF payload = "invalid" THEN 400 ELSE 200

WebhookEarlyReturn ==
    /\ budget.webhook > 0
    /\ \E payload \in WebhookRejections :
         webhookCalls' = Put(webhookCalls,
              [pc |-> "done", stkCallback |-> CallbackFailure, TransactionID |-> 0,
               currentTicketData |-> [status |-> NULL, phone |-> NULL],
               addDocs |-> 0, applied |-> FALSE, overwrote |-> FALSE,
               payload |-> payload, threw |-> (payload = "unparseable"),
               response |-> RejectionResponse(payload)])
    /\ budget' = [budget EXCEPT !.webhook = @ - 1]
    /\ UNCHANGED <<ticket, transactions, pollCalls, initCalls, dispatchCalls,
                   resendCalls, gatewayRequests, client>>

\* A store call of the handler (updateDoc, addDoc) rejects: the catch block
\* acknowledges with 'Accepted with internal processing error'.
WebhookThrew ==
    /\ \E c \in BagToSet(webhookCalls) :
         /\ c.pc \in {"addDocIgnored", "updateDoc", "addDoc"}
         /\ webhookCalls' = Replace(webhookCalls, c,
                [c EXCEPT !.pc = "done", !.threw = TRUE, !.response = 200])
    /\ UNCHANGED <<ticket, transactions, pollCalls, initCalls, dispatchCalls,
                   resendCalls, gatewayRequests, client, budget>>

\* Faulty variant, for C5: the duplicate is acknowledged without an audit entry.
WebhookIgnored_NoLog ==
    /\ \E c \in BagToSet(webhookCalls) :
         /\ c.pc = "addDocIgnored"
         /\ webhookCalls' = Replace(webhookCalls, c,
                [c EXCEPT !.pc = "done", !.response = 200])
    /\ UNCHANGED <<ticket, transactions, pollCalls, initCalls, dispatchCalls,
                   resendCalls, gatewayRequests, client, budget>>

WebhookIgnored ==
    /\ \E c \in BagToSet(webhookCalls) :
         /\ c.pc = "addDocIgnored"
         /\ transactions' = AddDoc(transactions, IgnoredCallbackEntry)
         /\ webhookCalls' = Replace(webhookCalls, c,
                [c EXCEPT !.pc = "done", !.addDocs = @ + 1, !.response = 200])
    /\ UNCHANGED <<ticket, pollCalls, initCalls, dispatchCalls, resendCalls,
                   gatewayRequests, client, budget>>

WebhookUpdate ==
    /\ \E c \in BagToSet(webhookCalls) :
         /\ c.pc = "updateDoc"
         /\ ticket' = UpdateDoc(ticket,
                WebhookTicketUpdateData(c.stkCallback, c.currentTicketData))
         /\ webhookCalls' = Replace(webhookCalls, c,
                [c EXCEPT !.pc = "addDoc",
                          !.applied = (PaymentStatus(c.stkCallback.ResponseCode) = "confirmed"),
                          !.overwrote = (ticket.status = "confirmed")])
    /\ client' = EmitSnapshot(client)
    /\ UNCHANGED <<transactions, pollCalls, initCalls, dispatchCalls, resendCalls,
                   gatewayRequests, budget>>

WebhookLog ==
    /\ \E c \in BagToSet(webhookCalls) :
         /\ c.pc = "addDoc"
         /\ transactions' = AddDoc(transactions,
                CallbackEntry(PaymentStatus(c.stkCallback.ResponseCode)))
         /\ webhookCalls' = Replace(webhookCalls, c,
                [c EXCEPT !.pc = "done", !.addDocs = @ + 1, !.response = 200])
    /\ UNCHANGED <<ticket, pollCalls, initCalls, dispatchCalls, resendCalls,
                   gatewayRequests, client, budget>>

(* ------------- manual poll: checkTransactionStatus (actions.ts) ------- *)
\* Faulty variant, for C30: the poll answers from a ticket that shows the push
\* was sent as if it were confirmed.
PollAlreadyConfirmed_StkSent(currentTicketData) ==
    currentTicketData.status \in {"confirmed", "payment_stk_sent"}

PollAlreadyConfirmed(currentTicketData) == currentTicketData.status = "confirmed"

PaymentCompleted(statusApiResult) ==
    /\ statusApiResult.ResultCode = "200"
    /\ statusApiResult.TransactionStatus = "Completed"
    /\ statusApiResult.TransactionCode = "0"

PollTicketUpdateData(statusApiResult, currentTicketData) ==
    [status |-> "confirmed",
     mpesaResultDesc |-> statusApiResult.ResultDesc,
     mpesaReceiptNumber |-> statusApiResult.TransactionReceipt,
     mpesaAmountPaid |-> statusApiResult.TransactionAmount,
     mpesaPhoneNumber |-> OrElse(statusApiResult.Msisdn, currentTicketData.phone),
     mpesaTransactionTimestamp |-> ParsedTransactionDate(statusApiResult.TransactionDate)]

\* The ticket is read; a confirmed ticket is answered at once, without a
\* gateway call and without an audit entry.
\* The caller supplies both parameters; the request id is sent to the gateway
\* as it came and is never compared with the one stored on the ticket.
PollStartWith(requestIds) ==
    /\ budget.poll > 0
    /\ \E umeskiaTransactionRequestId \in requestIds :
         LET currentTicketData == [status |-> ticket.status, phone |-> ticket.phone]
             confirmed == PollAlreadyConfirmed(currentTicketData)
         IN pollCalls' = Put(pollCalls,
              [pc |-> IF confirmed THEN "done" ELSE "axios",
               umeskiaTransactionRequestId |-> umeskiaTransactionRequestId,
               currentTicketData |-> currentTicketData,
               statusApiResult |-> NoAnswer, answered |-> FALSE,
               addDocs |-> 0, applied |-> FALSE, overwrote |-> FALSE,
               success |-> confirmed, isConfirmed |-> confirmed])
    /\ budget' = [budget EXCEPT !.poll = @ - 1]
    /\ UNCHANGED <<ticket, transactions, webhookCalls, initCalls, dispatchCalls,
                   resendCalls, gatewayRequests, client>>

\* A caller that passes a request id issued by an initiation of this ticket.
PollStart == PollStartWith(1..gatewayRequests)

\* A request id the gateway issued for the payment of another ticket.
OtherTicketRequestIds == {-1}

\* axios.post(mpesaStatusApiUrl) resolves with the gateway's answer.
PollGatewayAnsweredWith(answers) ==
    /\ \E c \in BagToSet(pollCalls) :
         /\ c.pc = "axios"
         /\ \E statusApiResult \in answers :
              pollCalls' = Replace(pollCalls, c,
                  [c EXCEPT !.pc = "addDocCheck", !.statusApiResult = statusApiResult,
                            !.answered = TRUE])
    /\ UNCHANGED <<ticket, transactions, webhookCalls, initCalls, dispatchCalls,
                   resendCalls, gatewayRequests, client, budget>>

PollGatewayAnswered == PollGatewayAnsweredWith(StatusAnswers)

\* axios.post throws (network error, non-2xx): the catch block returns
\* {success: false} and nothing is logged.
PollGatewayThrew ==
    /\ \E c \in BagToSet(pollCalls) :
         /\ c.pc = "axios"
         /\ pollCalls' = Replace(pollCalls, c, [c EXCEPT !.pc = "done"])
    /\ UNCHANGED <<ticket, transactions, webhookCalls, initCalls, dispatchCalls,
                   resendCalls, gatewayRequests, client, budget>>

\* The answer is logged; only a completed payment goes on to the update.
PollLogCheck ==
    /\ \E c \in BagToSet(pollCalls) :
         /\ c.pc = "addDocCheck"
         /\ transactions' = AddDoc(transactions, StatusCheckEntry)
         /\ pollCalls' = Replace(pollCalls, c,
              IF PaymentCompleted(c.statusApiResult)
              THEN [c EXCEPT !.pc = "updateDoc", !.addDocs = @ + 1]
              ELSE [c EXCEPT !.pc = "done", !.addDocs = @ + 1,
                             !.success = (c.statusApiResult.ResultCode = "200")])
    /\ UNCHANGED <<ticket, webhookCalls, initCalls, dispatchCalls, resendCalls,
                   gatewayRequests, client, budget>>

PollUpdate ==
    /\ \E c \in BagToSet(pollCalls) :
         /\ c.pc = "updateDoc"
         /\ ticket' = UpdateDoc(ticket,
                PollTicketUpdateData(c.statusApiResult, c.currentTicketData))
         /\ pollCalls' = Replace(pollCalls, c,
                [c EXCEPT !.pc = "addDocConfirmed", !.applied = TRUE,
                          !.overwrote = (ticket.status = "confirmed")])
    /\ client' = EmitSnapshot(client)
    /\ UNCHANGED <<transactions, webhookCalls, initCalls, dispatchCalls, resendCalls,
                   gatewayRequests, budget>>

PollLogConfirmed ==
    /\ \E c \in BagToSet(pollCalls) :
         /\ c.pc = "addDocConfirmed"
         /\ transactions' = AddDoc(transactions, StatusConfirmedEntry)
         /\ pollCalls' = Replace(pollCalls, c,
                [c EXCEPT !.pc = "done", !.addDocs = @ + 1,
                          !.success = TRUE, !.isConfirmed = TRUE])
    /\ UNCHANGED <<ticket, webhookCalls, initCalls, dispatchCalls, resendCalls,
                   gatewayRequests, client, budget>>

(* ------------- initiation: handlePaymentInitiation (actions.ts) ------- *)
\* The e-mail address is optional.
InitiationEmails == {NULL, UserEmail}

\* Parameters of a call.  A phone is its text with its characters (all digits
\* in these samples); an amount is its text with the value of parseFloat.
Phone0712345678 == [text |-> UserPhone, digits |-> <<0, 7, 1, 2, 3, 4, 5, 6, 7, 8>>]
Phone0812345678 == [text |-> "0812345678", digits |-> <<0, 8, 1, 2, 3, 4, 5, 6, 7, 8>>]
Phone07123 == [text |-> "07123", digits |-> <<0, 7, 1, 2, 3>>]
Amount500 == [text |-> "500", number |-> 500, isNaN |-> FALSE]
AmountZero == [text |-> "0", number |-> 0, isNaN |-> FALSE]
AmountNegative == [text |-> "-5", number |-> -5, isNaN |-> FALSE]
AmountNotNumeric == [text |-> "abc", number |-> 0, isNaN |-> TRUE]

Params(ticketId, amount, phone, email) ==
    [ticketId |-> ticketId, amount |-> amount, phone |-> phone, email |-> email]

InitiationInputs ==
    {Params(TicketId, Amount500, Phone0712345678, email) : email \in InitiationEmails}
    \cup {Params(TicketId, Amount500, phone, NULL) : phone \in {Phone0812345678, Phone07123}}
    \cup {Params(TicketId, amount, Phone0712345678, NULL) :
             amount \in {AmountZero, AmountNegative, AmountNotNumeric}}
    \cup {Params("T-404", Amount500, Phone0712345678, NULL),
          Params("", Amount500, Phone0712345678, NULL)}

\* Faulty variant, for C13: the format test of the earlier schema,
\* /^\d{10,12}$/, which takes any 10 to 12 digits.
PhoneAccepted_TenToTwelveDigits(phone) ==
    LET d == phone.digits
    IN /\ Len(d) \in 10..12
       /\ \A i \in 1..Len(d) : d[i] \in 0..9

\* phone: z.string().min(10).regex(/^(0[17]\d{8}|254[17]\d{8})$/)
PhoneAccepted(phone) ==
    LET d == phone.digits
    IN /\ Len(d) >= 10
       /\ \A i \in 1..Len(d) : d[i] \in 0..9
       /\ \/ Len(d) = 10 /\ d[1] = 0 /\ d[2] \in {1, 7}
          \/ Len(d) = 12 /\ d[1] = 2 /\ d[2] = 5 /\ d[3] = 4 /\ d[4] \in {1, 7}

\* amount: !isNaN(parseFloat(val)) && parseFloat(val) > 0
AmountAccepted(amount) == ~amount.isNaN /\ amount.number > 0

\* PaymentInitiationSchema.safeParse(params).success
ValidationSuccess(params) ==
    /\ params.ticketId # ""
    /\ AmountAccepted(params.amount)
    /\ PhoneAccepted(params.phone)

\* ticketSnap.exists()
TicketExists(ticketDocId) == ticketDocId = TicketId

NewInitCall(params, pc, ticketSnap) ==
    [pc |-> pc, params |-> params, phone |-> params.phone.text, email |-> params.email,
     ticketSnap |-> ticketSnap, transaction_request_id |-> 0, addDocs |-> 0,
     updateDocs |-> 0, gatewayCalls |-> 0, success |-> FALSE]

\* The call returns {success: false} at once: validation fails, or getDoc
\* finds no ticket.
InitEarlyReturn ==
    /\ budget.init > 0
    /\ \E params \in InitiationInputs :
         /\ ~(ValidationSuccess(params) /\ TicketExists(params.ticketId))
         /\ initCalls' = Put(initCalls, NewInitCall(params, "done", [status |-> NULL]))
    /\ budget' = [budget EXCEPT !.init = @ - 1]
    /\ UNCHANGED <<ticket, transactions, webhookCalls, pollCalls, dispatchCalls,
                   resendCalls, gatewayRequests, client>>

\* Faulty variant, for C14: the first write already claims the push was sent.
PendingUpdateData_StkSent(phone, email) ==
    [status |-> "payment_stk_sent", phone |-> phone, emailSent |-> FALSE]

PendingUpdateData(phone, email) ==
    IF email # NULL
    THEN [status |-> "payment_pending_mpesa", phone |-> phone, emailSent |-> FALSE,
          email |-> email]
    ELSE [status |-> "payment_pending_mpesa", phone |-> phone, emailSent |-> FALSE]

\* Validation passes and getDoc finds the ticket; cl is the caller's state
\* once the call is under way.
InitStartFrom(cl) ==
    /\ budget.init > 0
    /\ \E params \in InitiationInputs :
         /\ ValidationSuccess(params)
         /\ TicketExists(params.ticketId)
         /\ initCalls' = Put(initCalls,
                NewInitCall(params, "updateDocPending", [status |-> ticket.status]))
    /\ budget' = [budget EXCEPT !.init = @ - 1]
    /\ client' = cl
    /\ UNCHANGED <<ticket, transactions, webhookCalls, pollCalls, dispatchCalls,
                   resendCalls, gatewayRequests>>

InitStart == InitStartFrom(client)

InitPending ==
    /\ \E c \in BagToSet(initCalls) :
         /\ c.pc = "updateDocPending"
         /\ ticket' = UpdateDoc(ticket, PendingUpdateData(c.phone, c.email))
         /\ initCalls' = Replace(initCalls, c,
                [c EXCEPT !.pc = "axios", !.updateDocs = @ + 1])
    /\ client' = EmitSnapshot(client)
    /\ UNCHANGED <<transactions, webhookCalls, pollCalls, dispatchCalls, resendCalls,
                   gatewayRequests, budget>>

\* axios.post(mpesaApiUrl): success === "200" with a fresh transaction_request_id.
InitGatewayAccepted ==
    /\ \E c \in BagToSet(initCalls) :
         /\ c.pc = "axios"
         /\ initCalls' = Replace(initCalls, c,
                [c EXCEPT !.pc = "updateDocStkSent", !.gatewayCalls = @ + 1,
                          !.transaction_request_id = gatewayRequests + 1])
    /\ gatewayRequests' = gatewayRequests + 1
    /\ UNCHANGED <<ticket, transactions, webhookCalls, pollCalls, dispatchCalls,
                   resendCalls, client, budget>>

\* A 2xx answer that is no acceptance.
InitGatewayRejected ==
    /\ \E c \in BagToSet(initCalls) :
         /\ c.pc = "axios"
         /\ initCalls' = Replace(initCalls, c,
                [c EXCEPT !.pc = "updateDocFailed", !.gatewayCalls = @ + 1])
    /\ UNCHANGED <<ticket, transactions, webhookCalls, pollCalls, dispatchCalls,
                   resendCalls, gatewayRequests, client, budget>>

\* axios.post throws: the catch block reads the ticket again.
InitGatewayThrew ==
    /\ \E c \in BagToSet(initCalls) :
         /\ c.pc = "axios"
         /\ initCalls' = Replace(initCalls, c,
                [c EXCEPT !.pc = "catchUpdateDoc", !.gatewayCalls = @ + 1])
    /\ UNCHANGED <<ticket, transactions, webhookCalls, pollCalls, dispatchCalls,
                   resendCalls, gatewayRequests, client, budget>>

InitStkSent ==
    /\ \E c \in BagToSet(initCalls) :
         /\ c.pc = "updateDocStkSent"
         /\ ticket' = UpdateDoc(ticket,
                [umeskiaTransactionRequestId |-> c.transaction_request_id,
                 status |-> "payment_stk_sent"])
         /\ initCalls' = Replace(initCalls, c,
                [c EXCEPT !.pc = "addDoc", !.updateDocs = @ + 1])
    /\ client' = EmitSnapshot(client)
    /\ UNCHANGED <<transactions, webhookCalls, pollCalls, dispatchCalls, resendCalls,
                   gatewayRequests, budget>>

InitLog ==
    /\ \E c \in BagToSet(initCalls) :
         /\ c.pc = "addDoc"
         /\ transactions' = AddDoc(transactions, InitiationEntry)
         /\ initCalls' = Replace(initCalls, c,
                [c EXCEPT !.pc = "done", !.addDocs = @ + 1, !.success = TRUE])
    /\ UNCHANGED <<ticket, webhookCalls, pollCalls, dispatchCalls, resendCalls,
                   gatewayRequests, client, budget>>

InitRejected ==
    /\ \E c \in BagToSet(initCalls) :
         /\ c.pc = "updateDocFailed"
         /\ ticket' = UpdateDoc(ticket,
                [status |-> "payment_initiation_failed",
                 errorDetails |-> "No message from provider."])
         /\ initCalls' = Replace(initCalls, c,
                [c EXCEPT !.pc = "done", !.updateDocs = @ + 1])
    /\ client' = EmitSnapshot(client)
    /\ UNCHANGED <<transactions, webhookCalls, pollCalls, dispatchCalls, resendCalls,
                   gatewayRequests, budget>>

\* catch: getDoc finds the ticket, and the error status is written.
InitCatch ==
    /\ \E c \in BagToSet(initCalls) :
         /\ c.pc = "catchUpdateDoc"
         /\ ticket' = UpdateDoc(ticket,
                [status |-> "payment_initiation_error",
                 errorDetails |-> "An error occurred while initiating the payment."])
         /\ initCalls' = Replace(initCalls, c,
                [c EXCEPT !.pc = "done", !.updateDocs = @ + 1])
    /\ client' = EmitSnapshot(client)
    /\ UNCHANGED <<transactions, webhookCalls, pollCalls, dispatchCalls, resendCalls,
                   gatewayRequests, budget>>

(* ------ automatic receipt: processAndSendTicketEmail (actions.ts) ----- *)
\* The three early returns before the delivery: 'not confirmed yet', 'no email
\* address on file', 'already sent previously'.
\* Faulty variant, for C9: the 'already sent previously' return is missing.
AutomaticEmailDue_IgnoresEmailSent(ticketData) ==
    /\ ticketData.status = "confirmed"
    /\ ticketData.email # NULL

AutomaticEmailDue(ticketData) ==
    /\ ticketData.status = "confirmed"
    /\ ticketData.email # NULL
    /\ ticketData.emailSent # TRUE

SentUpdateData == [emailSent |-> TRUE, lastEmailAttemptAt |-> "serverTimestamp"]

\* Faulty variant, for C25: the error branch marks the ticket as well.
FailedUpdateData_MarksSent(message) ==
    [emailSent |-> TRUE, lastEmailAttemptAt |-> "serverTimestamp",
     lastEmailError |-> message]

FailedUpdateData(message) ==
    [lastEmailAttemptAt |-> "serverTimestamp", lastEmailError |-> message]

NewDispatchCall(caller) ==
    [pc |-> "getDoc", caller |-> caller,
     ticketData |-> [status |-> NULL, email |-> NULL, emailSent |-> FALSE],
     emailResult |-> FALSE, sendCalled |-> FALSE, wrote |-> FALSE, flipped |-> FALSE,
     attempted |-> FALSE, success |-> FALSE]

\* The server action is invoked by a caller other than the modelled client
\* (another tab or device showing the same ticket).
DispatchCall ==
    /\ budget.dispatch > 0
    /\ dispatchCalls' = Put(dispatchCalls, NewDispatchCall("other"))
    /\ budget' = [budget EXCEPT !.dispatch = @ - 1]
    /\ UNCHANGED <<ticket, transactions, webhookCalls, pollCalls, initCalls,
                   resendCalls, gatewayRequests, client>>

\* getDoc and the early returns.
DispatchRead ==
    /\ \E c \in BagToSet(dispatchCalls) :
         /\ c.pc = "getDoc"
         /\ LET ticketData == [status |-> ticket.status, email |-> ticket.email,
                               emailSent |-> ticket.emailSent]
            IN dispatchCalls' = Replace(dispatchCalls, c,
                 IF AutomaticEmailDue(ticketData)
                 THEN [c EXCEPT !.pc = "send", !.ticketData = ticketData]
                 ELSE [c EXCEPT !.pc = "done", !.ticketData = ticketData,
                         !.attempted = (ticketData.status = "confirmed"
                                        /\ ticketData.email # NULL),
                         !.success = (ticketData.status = "confirmed"
                                      /\ ticketData.email # NULL)])
    /\ UNCHANGED <<ticket, transactions, webhookCalls, pollCalls, initCalls,
                   resendCalls, gatewayRequests, client, budget>>

\* sendPaymentConfirmationEmail resolves with success.
DispatchDelivered ==
    /\ \E c \in BagToSet(dispatchCalls) :
         /\ c.pc = "send"
         /\ dispatchCalls' = Replace(dispatchCalls, c,
                [c EXCEPT !.pc = "updateDoc", !.emailResult = TRUE, !.sendCalled = TRUE])
    /\ UNCHANGED <<ticket, transactions, webhookCalls, pollCalls, initCalls,
                   resendCalls, gatewayRequests, client, budget>>

\* sendPaymentConfirmationEmail resolves with {success: false, message}.
DispatchDeliveryFailed ==
    /\ \E c \in BagToSet(dispatchCalls) :
         /\ c.pc = "send"
         /\ dispatchCalls' = Replace(dispatchCalls, c,
                [c EXCEPT !.pc = "updateDoc", !.emailResult = FALSE, !.sendCalled = TRUE])
    /\ UNCHANGED <<ticket, transactions, webhookCalls, pollCalls, initCalls,
                   resendCalls, gatewayRequests, client, budget>>

\* The outcome is recorded on the ticket: emailSent on success, the error
\* otherwise.
DispatchMark ==
    /\ \E c \in BagToSet(dispatchCalls) :
         /\ c.pc = "updateDoc"
         /\ ticket' = UpdateDoc(ticket,
                IF c.emailResult THEN SentUpdateData
                ELSE FailedUpdateData("Failed to send ticket email."))
         /\ dispatchCalls' = Replace(dispatchCalls, c,
                [c EXCEPT !.pc = "done", !.wrote = TRUE,
                          !.flipped = (c.emailResult /\ ~ticket.emailSent),
                          !.attempted = TRUE, !.success = c.emailResult])
    /\ client' = EmitSnapshot(client)
    /\ UNCHANGED <<transactions, webhookCalls, pollCalls, initCalls, resendCalls,
                   gatewayRequests, budget>>

(* -------- explicit resend: resendTicketEmailAction (actions.ts) ------- *)
\* Faulty variant, for C10: the resend honours emailSent like the automatic path.
ResendAllowed_SkipsWhenSent(ticketData) ==
    /\ ticketData.status = "confirmed"
    /\ ticketData.email # NULL
    /\ ticketData.emailSent # TRUE

ResendAllowed(ticketData) ==
    /\ ticketData.status = "confirmed"
    /\ ticketData.email # NULL

\* Faulty variant, for C26: a failed resend takes the mark back.
ResendUpdateData_ClearsSent(t, emailResult) ==
    IF emailResult
    THEN [lastEmailAttemptAt |-> "serverTimestamp",
          resentEmailCount |-> t.resentEmailCount + 1, emailSent |-> TRUE]
    ELSE [lastEmailAttemptAt |-> "serverTimestamp",
          resentEmailCount |-> t.resentEmailCount + 1, emailSent |-> FALSE,
          lastEmailError |-> "Failed to resend ticket email."]

\* updateData of the resend; increment(1) is applied by the store to the value
\* the document holds at the write.
ResendUpdateData(t, emailResult) ==
    IF emailResult
    THEN [lastEmailAttemptAt |-> "serverTimestamp",
          resentEmailCount |-> t.resentEmailCount + 1, emailSent |-> TRUE]
    ELSE [lastEmailAttemptAt |-> "serverTimestamp",
          resentEmailCount |-> t.resentEmailCount + 1,
          lastEmailError |-> "Failed to resend ticket email."]

\* getDoc and the early returns.
ResendStart ==
    /\ budget.resend > 0
    /\ LET ticketData == [status |-> ticket.status, email |-> ticket.email,
                          emailSent |-> ticket.emailSent]
       IN resendCalls' = Put(resendCalls,
            [pc |-> IF ResendAllowed(ticketData) THEN "send" ELSE "done",
             ticketData |-> ticketData, emailResult |-> FALSE,
             sendCalled |-> FALSE, wrote |-> FALSE, success |-> FALSE])
    /\ budget' = [budget EXCEPT !.resend = @ - 1]
    /\ UNCHANGED <<ticket, transactions, webhookCalls, pollCalls, initCalls,
                   dispatchCalls, gatewayRequests, client>>

ResendDelivered ==
    /\ \E c \in BagToSet(resendCalls) :
         /\ c.pc = "send"
         /\ resendCalls' = Replace(resendCalls, c,
                [c EXCEPT !.pc = "updateDoc", !.emailResult = TRUE, !.sendCalled = TRUE])
    /\ UNCHANGED <<ticket, transactions, webhookCalls, pollCalls, initCalls,
                   dispatchCalls, gatewayRequests, client, budget>>

ResendDeliveryFailed ==
    /\ \E c \in BagToSet(resendCalls) :
         /\ c.pc = "send"
         /\ resendCalls' = Replace(resendCalls, c,
                [c EXCEPT !.pc = "updateDoc", !.emailResult = FALSE, !.sendCalled = TRUE])
    /\ UNCHANGED <<ticket, transactions, webhookCalls, pollCalls, initCalls,
                   dispatchCalls, gatewayRequests, client, budget>>

ResendMark ==
    /\ \E c \in BagToSet(resendCalls) :
         /\ c.pc = "updateDoc"
         /\ ticket' = UpdateDoc(ticket, ResendUpdateData(ticket, c.emailResult))
         /\ resendCalls' = Replace(resendCalls, c,
                [c EXCEPT !.pc = "done", !.wrote = TRUE, !.success = c.emailResult])
    /\ client' = EmitSnapshot(client)
    /\ UNCHANGED <<transactions, webhookCalls, pollCalls, initCalls, dispatchCalls,
                   gatewayRequests, budget>>

(* ------------------- client: PaymentDisplay (part_001) ---------------- *)
\* Length up to which the events the component received are recorded.
MaxEvents == 4

RedirectMessage == "Payment Confirmed"

\* What the component shows (renderPaymentStatus), as a state of the
\* coordinator.
CoordinatorState(cl) ==
    IF cl.isPaymentReallyConfirmed THEN "Confirmed"
    ELSE IF cl.isLoading THEN "AwaitingGatewayResponse"
    ELSE IF cl.paymentInitiationResult = "success"
         THEN IF cl.showManualActions THEN "ManualActionsAvailable"
              ELSE "AwaitingConfirmation"
         ELSE "Idle"

\* History: the states the component entered, and the first MaxEvents events it
\* received.
Observed(cl, event) ==
    LET s == CoordinatorState(cl)
    IN [cl EXCEPT !.entered = IF s = @[Len(@)] THEN @ ELSE Append(@, s),
                  !.events = IF event # NULL /\ Len(@) < MaxEvents
                             THEN Append(@, event) ELSE @]

\* resetManualActionsState: the deadline timer is cleared and the manual
\* actions are hidden.
ResetManualActionsState(cl) ==
    [cl EXCEPT !.manualActionsTimer = "none", !.showManualActions = FALSE]

\* Faulty variant, for C34: clearTimeout leaves the timer running.
ClearTimeout_Keeps(timer) == timer

\* clearTimeout(ref.current): a pending timer is cancelled.
ClearTimeout(timer) == IF timer = "pending" THEN "cleared" ELSE timer

\* performRedirect: the message is set, clearTimeout is called on the timer the
\* ref holds, and a new timer is started and stored in the ref.  A timer that
\* is still running when the ref lets go of it keeps running.
PerformRedirect(cl) ==
    [cl EXCEPT !.redirectMessage = RedirectMessage,
               !.orphanRedirectTimers =
                   IF ClearTimeout(cl.redirectTimer) = "pending" THEN @ + 1 ELSE @,
               !.redirectTimer = "pending",
               !.scheduled = @ + 1]

\* Redirect timers that have been started and have neither fired nor been
\* cancelled.
PendingRedirectTimers(cl) ==
    cl.orphanRedirectTimers + (IF cl.redirectTimer = "pending" THEN 1 ELSE 0)

\* The confirmation branch of the onSnapshot callback; isPaymentReallyConfirmed
\* and redirectMessage are the values its closure captured when the effect last
\* ran.
SnapshotConfirmation(cl) ==
    IF TicketOf(cl).status = "confirmed" /\ ~cl.closureIsPaymentReallyConfirmed
    THEN LET reset == ResetManualActionsState([cl EXCEPT !.isPaymentReallyConfirmed = TRUE])
         IN IF cl.closureRedirectMessage = NULL THEN PerformRedirect(reset) ELSE reset
    ELSE cl

\* The confirmation branch of initialFetchAndEmail.
InitialFetchConfirmation(cl) ==
    IF TicketOf(cl).status = "confirmed"
    THEN LET confirmed == [cl EXCEPT !.isPaymentReallyConfirmed = TRUE]
         IN IF cl.closureRedirectMessage = NULL THEN PerformRedirect(confirmed)
            ELSE confirmed
    ELSE cl

\* The guard of triggerEmailSendIfNeeded; isProcessingEmail is the value its
\* closure captured when the effect last ran.
\* Faulty variant, for C8: the emailSent test of the guard is inverted.
ClientEmailDue_Inverted(currentTicketData, isProcessingEmail) ==
    /\ currentTicketData.status = "confirmed"
    /\ currentTicketData.email # NULL
    /\ currentTicketData.emailSent
    /\ ~isProcessingEmail

ClientEmailDue(currentTicketData, isProcessingEmail) ==
    /\ currentTicketData.status = "confirmed"
    /\ currentTicketData.email # NULL
    /\ ~currentTicketData.emailSent
    /\ ~isProcessingEmail

\* triggerEmailSendIfNeeded(docSnap.id, data): when due, isProcessingEmail is
\* set and the server action is invoked.
TriggerEmailSendIfNeeded(cl) ==
    IF ClientEmailDue(TicketOf(cl), cl.closureIsProcessingEmail)
    THEN /\ client' = [cl EXCEPT !.isProcessingEmail = TRUE]
         /\ dispatchCalls' = Put(dispatchCalls, NewDispatchCall("client"))
    ELSE /\ client' = cl
         /\ UNCHANGED dispatchCalls

\* The onSnapshot callback runs on the latest snapshot of the ticket.
ClientSnapshot ==
    /\ client.subscribed
    /\ client.snapshotPending
    /\ TriggerEmailSendIfNeeded(
         Observed(SnapshotConfirmation([client EXCEPT !.snapshotPending = FALSE]),
                  IF TicketOf(client).status = "confirmed" THEN "pushConfirmed" ELSE NULL))
    /\ UNCHANGED <<ticket, transactions, webhookCalls, pollCalls, initCalls,
                   resendCalls, gatewayRequests, budget>>

\* initialFetchAndEmail: the getDoc of the effect resolves; the cleanup of the
\* effect does not cancel it.
ClientInitialFetch ==
    /\ client.fetchPending
    /\ TriggerEmailSendIfNeeded(
         Observed(InitialFetchConfirmation([client EXCEPT !.fetchPending = FALSE]),
                  IF TicketOf(client).status = "confirmed" THEN "pullConfirmed" ELSE NULL))
    /\ UNCHANGED <<ticket, transactions, webhookCalls, pollCalls, initCalls,
                   resendCalls, gatewayRequests, budget>>

\* The awaited processAndSendTicketEmail returns: setIsProcessingEmail(false).
ClientEmailResult ==
    /\ \E c \in BagToSet(dispatchCalls) :
         /\ c.pc = "done"
         /\ c.caller = "client"
         /\ dispatchCalls' = Replace(dispatchCalls, c, [c EXCEPT !.caller = "clientReturned"])
    /\ client' = [client EXCEPT !.isProcessingEmail = FALSE]
    /\ UNCHANGED <<ticket, transactions, webhookCalls, pollCalls, initCalls,
                   resendCalls, gatewayRequests, budget>>

\* The dependencies of the effect that change in the life of the component:
\* isPaymentReallyConfirmed, redirectMessage, and triggerEmailSendIfNeeded,
\* whose identity changes with isProcessingEmail.
EffectDependenciesChanged(cl) ==
    \/ cl.closureIsProcessingEmail # cl.isProcessingEmail
    \/ cl.closureIsPaymentReallyConfirmed # cl.isPaymentReallyConfirmed
    \/ cl.closureRedirectMessage # cl.redirectMessage

\* A dependency of the effect changed: the effect is cleaned up (unsubscribe,
\* both timers cleared) and run again (setPaymentInitiationResult(null),
\* initialFetchAndEmail, a new onSnapshot with its first snapshot).
ClientEffect ==
    /\ client.subscribed
    /\ EffectDependenciesChanged(client)
    /\ client' = Observed(
         [client EXCEPT !.closureIsProcessingEmail = client.isProcessingEmail,
                        !.closureIsPaymentReallyConfirmed = client.isPaymentReallyConfirmed,
                        !.closureRedirectMessage = client.redirectMessage,
                        !.redirectTimer = ClearTimeout(@),
                        !.manualActionsTimer = ClearTimeout(@),
                        !.paymentInitiationResult = NULL,
                        !.snapshotPending = TRUE, !.fetchPending = TRUE], NULL)
    /\ UNCHANGED <<ticket, transactions, webhookCalls, pollCalls, initCalls,
                   dispatchCalls, resendCalls, gatewayRequests, budget>>

\* The component is unmounted, or its ticketId changes: the cleanup of the
\* effect runs (unsubscribe, both timers cleared) and nothing subscribes to
\* this ticket again.
ClientDispose ==
    /\ client.subscribed
    /\ client' = [client EXCEPT !.subscribed = FALSE, !.snapshotPending = FALSE,
                                !.redirectTimer = ClearTimeout(@),
                                !.manualActionsTimer = ClearTimeout(@)]
    /\ UNCHANGED <<ticket, transactions, webhookCalls, pollCalls, initCalls,
                   dispatchCalls, resendCalls, gatewayRequests, budget>>

\* A redirect timer fires after 3 s: window.open(urlToOpen).  It is the timer
\* the ref holds, or one that was left running.
ClientRedirectTimerFires ==
    /\ \E timer \in {"held", "left"} :
         /\ timer = "held" => client.redirectTimer = "pending"
         /\ timer = "left" => client.orphanRedirectTimers > 0
         /\ client' = IF timer = "held"
                      THEN [client EXCEPT !.redirectTimer = "fired", !.opened = @ + 1]
                      ELSE [client EXCEPT !.orphanRedirectTimers = @ - 1,
                                          !.opened = @ + 1]
    /\ UNCHANGED <<ticket, transactions, webhookCalls, pollCalls, initCalls,
                   dispatchCalls, resendCalls, gatewayRequests, budget>>

\* The buttons that call onInitiatePayment: the first payment button, the
\* retry after a failure, and "Retry STK Push" among the manual actions.
InitiateButtonShown(cl) ==
    /\ ~cl.isLoading
    /\ \/ cl.paymentInitiationResult # "success" /\ ~cl.isPaymentReallyConfirmed
       \/ /\ cl.paymentInitiationResult = "success" /\ cl.showManualActions
          /\ ~(cl.isPaymentReallyConfirmed /\ cl.redirectMessage # NULL)

\* onInitiatePayment up to its await: the form passes the client's checks, the
\* manual actions are reset and handlePaymentInitiation is called.  The
\* callback of the deadline timer will read isPaymentReallyConfirmed as
\* rendered now.
ClientInitiate ==
    /\ client.subscribed
    /\ InitiateButtonShown(client)
    /\ InitStartFrom(Observed(ResetManualActionsState(
         [client EXCEPT !.isLoading = TRUE, !.paymentInitiationResult = NULL,
                        !.deadlineClosureConfirmed = client.isPaymentReallyConfirmed]),
         NULL))

\* Faulty variant, for C20: the deadline never exposes the manual actions.
ManualActionsDue_Never(isPaymentReallyConfirmed) == FALSE

\* The test in the callback of the deadline timer.
ManualActionsDue(isPaymentReallyConfirmed) == ~isPaymentReallyConfirmed

\* handlePaymentInitiation returns to onInitiatePayment: the result is shown,
\* and on success the deadline timer of MANUAL_ACTIONS_DELAY is started.
ClientInitiationResult ==
    /\ client.isLoading
    /\ Running(initCalls) = {}
    /\ \E c \in BagToSet(initCalls) :
         /\ c.pc = "done"
         /\ client' = Observed(
              [client EXCEPT !.isLoading = FALSE,
                             !.paymentInitiationResult =
                                 IF c.success THEN "success" ELSE "failure",
                             !.manualActionsTimer = IF c.success THEN "pending" ELSE @],
              IF c.success THEN "initiateSuccess" ELSE "initiateFailure")
    /\ UNCHANGED <<ticket, transactions, webhookCalls, pollCalls, initCalls,
                   dispatchCalls, resendCalls, gatewayRequests, budget>>

\* The deadline timer fires after MANUAL_ACTIONS_DELAY.
ClientManualDeadline ==
    /\ client.manualActionsTimer = "pending"
    /\ client' = Observed(
         [client EXCEPT !.manualActionsTimer = "fired",
                        !.showManualActions =
                            IF ManualActionsDue(client.deadlineClosureConfirmed)
                            THEN TRUE ELSE @],
         "manualDeadline")
    /\ UNCHANGED <<ticket, transactions, webhookCalls, pollCalls, initCalls,
                   dispatchCalls, resendCalls, gatewayRequests, budget>>

\* handleCheckStatus, from the "Check Transaction Status" button of the manual
\* actions: checkTransactionStatus is called; its result changes only the
\* status message shown.
ClientCheckStatus ==
    /\ CoordinatorState(client) = "ManualActionsAvailable"
    /\ PollStart

\* Number of times the redirect is scheduled that are followed.
MaxRedirects == 3

\* "Go to Ticket Status Now", shown with the redirect message: the getDoc of
\* its handler has resolved and performRedirect is called.
ClientGoNow ==
    /\ client.subscribed
    /\ client.isPaymentReallyConfirmed /\ client.redirectMessage # NULL
    /\ client.scheduled < MaxRedirects
    /\ client' = PerformRedirect(client)
    /\ UNCHANGED <<ticket, transactions, webhookCalls, pollCalls, initCalls,
                   dispatchCalls, resendCalls, gatewayRequests, budget>>

\* The page is given another ticketId while the component stays mounted: the
\* effect is cleaned up (unsubscribe, both timers cleared) and run again for
\* the document of the new ticket (setShowMissingParamsError(false),
\* setPaymentInitiationResult(null), initialFetchAndEmail, onSnapshot).  No
\* other state of the component is touched.
ClientTicketChanged ==
    /\ client.subscribed
    /\ client.ticketId = TicketId
    /\ client' = Observed(
         [client EXCEPT !.ticketId = OtherTicketId,
                        !.closureIsProcessingEmail = client.isProcessingEmail,
                        !.closureIsPaymentReallyConfirmed = client.isPaymentReallyConfirmed,
                        !.closureRedirectMessage = client.redirectMessage,
                        !.redirectTimer = ClearTimeout(@),
                        !.manualActionsTimer = ClearTimeout(@),
                        !.paymentInitiationResult = NULL,
                        !.snapshotPending = TRUE, !.fetchPending = TRUE], NULL)
    /\ UNCHANGED <<ticket, transactions, webhookCalls, pollCalls, initCalls,
                   dispatchCalls, resendCalls, gatewayRequests, budget>>

(* --------------------------- specifications --------------------------- *)
InitWith(b, subscribed) ==
    /\ ticket = InitialTicket
    /\ transactions = <<>>
    /\ webhookCalls = EmptyBag
    /\ pollCalls = EmptyBag
    /\ initCalls = EmptyBag
    /\ dispatchCalls = EmptyBag
    /\ resendCalls = EmptyBag
    /\ gatewayRequests = 0
    /\ client = [subscribed |-> subscribed, ticketId |-> TicketId,
                 orphanRedirectTimers |-> 0, isProcessingEmail |-> FALSE,
                 closureIsProcessingEmail |-> FALSE,
                 snapshotPending |-> subscribed, fetchPending |-> subscribed,
                 isLoading |-> FALSE, paymentInitiationResult |-> NULL,
                 isPaymentReallyConfirmed |-> FALSE,
                 closureIsPaymentReallyConfirmed |-> FALSE,
                 redirectMessage |-> NULL, closureRedirectMessage |-> NULL,
                 redirectTimer |-> "none", manualActionsTimer |-> "none",
                 deadlineClosureConfirmed |-> FALSE, showManualActions |-> FALSE,
                 scheduled |-> 0, opened |-> 0,
                 entered |-> <<"Idle">>, events |-> <<>>]
    /\ budget = b

WebhookStep == WebhookIgnored \/ WebhookUpdate \/ WebhookLog
PollStep == PollGatewayAnswered \/ PollGatewayThrew \/ PollLogCheck \/ PollUpdate
            \/ PollLogConfirmed
InitStep == InitPending \/ InitGatewayAccepted \/ InitGatewayRejected
            \/ InitGatewayThrew \/ InitStkSent \/ InitLog \/ InitRejected \/ InitCatch
DispatchStep == DispatchRead \/ DispatchDelivered \/ DispatchDeliveryFailed
                \/ DispatchMark
ResendStep == ResendDelivered \/ ResendDeliveryFailed \/ ResendMark

\* Reconciliation: webhook deliveries, manual polls and initiations of one
\* ticket, interleaved at every await.
Init == InitWith([webhook |-> MaxWebhook, poll |-> MaxPoll, init |-> MaxInit,
                  dispatch |-> 0, resend |-> 0], FALSE)
Next ==
    \/ WebhookReceive \/ WebhookStep
    \/ PollStart \/ PollStep
    \/ InitStart \/ InitStep
Spec == Init /\ [][Next]_vars

\* The same handlers, one request at a time: a request is taken up only when
\* no handler is part-way through its steps.
SeqWebhookReceive == Quiescent /\ WebhookReceive
SeqPollStart == Quiescent /\ PollStart
SeqInitStart == Quiescent /\ InitStart
SeqDispatchCall == Quiescent /\ DispatchCall

\* Evidence applied one instance after another, to the ticket of one
\* initiation (which may come before, between or after the evidence).
InitSeq == InitWith([webhook |-> MaxSeqWebhook, poll |-> MaxPoll, init |-> 1,
                     dispatch |-> 0, resend |-> 0], FALSE)
NextSeq ==
    \/ SeqWebhookReceive \/ WebhookStep
    \/ SeqPollStart \/ PollStep
    \/ SeqInitStart \/ InitStep
SpecSeq == InitSeq /\ [][NextSeq]_vars

\* Initiations (with retries), webhook deliveries and automatic dispatch calls
\* one after another.
InitRetry == InitWith([webhook |-> MaxWebhook, poll |-> 0, init |-> MaxSeqInit,
                       dispatch |-> MaxDispatch, resend |-> 0], FALSE)
NextRetry ==
    \/ SeqWebhookReceive \/ WebhookStep
    \/ SeqInitStart \/ InitStep
    \/ SeqDispatchCall \/ DispatchStep
SpecRetry == InitRetry /\ [][NextRetry]_vars

\* Receipt e-mails: automatic dispatch and explicit resend, concurrent with
\* one initiation that the gateway accepts and one webhook delivery (which,
\* being the only evidence, never finds the ticket confirmed).
InitEmail == InitWith([webhook |-> 1, poll |-> 0, init |-> 1,
                       dispatch |-> MaxDispatch, resend |-> MaxResend], FALSE)
NextEmail ==
    \/ WebhookReceive \/ WebhookUpdate \/ WebhookLog
    \/ InitStart \/ InitPending \/ InitGatewayAccepted \/ InitStkSent \/ InitLog
    \/ DispatchCall \/ DispatchStep
    \/ ResendStart \/ ResendStep
SpecEmail == InitEmail /\ [][NextEmail]_vars

\* Initiation attempts with every kind of input, and webhook deliveries, one
\* request after another.
SeqInitEarlyReturn == Quiescent /\ InitEarlyReturn
InitAttempts == InitWith([webhook |-> MaxWebhook, poll |-> 0, init |-> MaxSeqInit,
                          dispatch |-> 0, resend |-> 0], FALSE)
NextAttempts ==
    \/ SeqInitStart \/ SeqInitEarlyReturn \/ InitStep
    \/ SeqWebhookReceive \/ WebhookStep
SpecAttempts == InitAttempts /\ [][NextAttempts]_vars

\* Initiations and retries, and callbacks that name any of the requests the
\* gateway has issued so far; one request after another.
SeqWebhookReceiveForRequest == Quiescent /\ WebhookReceiveWith(1..gatewayRequests)
InitSuperseded == InitWith([webhook |-> MaxWebhook, poll |-> 0, init |-> MaxSeqInit,
                            dispatch |-> 0, resend |-> 0], FALSE)
NextSuperseded ==
    \/ SeqInitStart \/ InitStep
    \/ SeqWebhookReceiveForRequest \/ WebhookStep
SpecSuperseded == InitSuperseded /\ [][NextSuperseded]_vars

\* The audit log under every operation that writes it: initiations and
\* retries, manual polls and one webhook delivery; one request after another.
InitLogging == InitWith([webhook |-> 1, poll |-> MaxPoll, init |-> MaxSeqInit,
                         dispatch |-> 0, resend |-> 0], FALSE)
NextLogging ==
    \/ SeqInitStart \/ InitStep
    \/ SeqWebhookReceive \/ WebhookStep
    \/ SeqPollStart \/ PollStep
SpecLogging == InitLogging /\ [][NextLogging]_vars

\* The webhook endpoint with every kind of request, and store calls that may
\* fail.
InitAck == InitWith([webhook |-> MaxWebhook, poll |-> 0, init |-> 0,
                     dispatch |-> 0, resend |-> 0], FALSE)
NextAck == WebhookReceive \/ WebhookEarlyReturn \/ WebhookStep \/ WebhookThrew
SpecAck == InitAck /\ [][NextAck]_vars

\* End to end: one initiation returns, then the gateway delivers its callback,
\* while a client is subscribed to the ticket; deliveries of the e-mail
\* succeed.  Handlers that have started run on, and the client's callbacks
\* run when their events are pending.
E2EWebhookReceive ==
    /\ \E c \in BagToSet(initCalls) : c.pc = "done" /\ c.success
    /\ WebhookReceive

InitE2E == InitWith([webhook |-> 1, poll |-> 0, init |-> 1,
                     dispatch |-> 0, resend |-> 0], TRUE)
NextE2E ==
    \/ InitStart \/ InitStep
    \/ E2EWebhookReceive \/ WebhookUpdate \/ WebhookLog
    \/ DispatchRead \/ DispatchDelivered \/ DispatchMark
    \/ ClientSnapshot \/ ClientInitialFetch \/ ClientEmailResult \/ ClientEffect
FairE2E ==
    /\ WF_vars(InitStep)
    /\ WF_vars(E2EWebhookReceive) /\ WF_vars(WebhookUpdate) /\ WF_vars(WebhookLog)
    /\ WF_vars(DispatchRead) /\ WF_vars(DispatchDelivered) /\ WF_vars(DispatchMark)
    /\ WF_vars(ClientSnapshot) /\ WF_vars(ClientInitialFetch)
    /\ WF_vars(ClientEmailResult) /\ WF_vars(ClientEffect)
SpecE2E == InitE2E /\ [][NextE2E]_vars /\ FairE2E

\* The client coordinator: the component is mounted on a ticket awaiting
\* payment; the user initiates once, the gateway delivers its callback after
\* the initiation returned, the user may poll from the manual actions, the
\* timers fire when pending, and deliveries of the e-mail succeed.
InitClient == InitWith([webhook |-> 1, poll |-> 1, init |-> 1,
                        dispatch |-> 0, resend |-> 0], TRUE)
NextClient ==
    \/ ClientInitiate \/ InitStep \/ ClientInitiationResult
    \/ ClientManualDeadline \/ ClientCheckStatus \/ PollStep
    \/ E2EWebhookReceive \/ WebhookStep
    \/ DispatchRead \/ DispatchDelivered \/ DispatchMark
    \/ ClientSnapshot \/ ClientInitialFetch \/ ClientEmailResult \/ ClientEffect
    \/ ClientRedirectTimerFires
SpecClient == InitClient /\ [][NextClient]_vars

\* Disposal: the client coordinator with one initiation and one webhook
\* delivery, where the component may be unmounted (or given another ticketId)
\* at any moment.
InitDisposal == InitWith([webhook |-> 1, poll |-> 0, init |-> 1,
                          dispatch |-> 0, resend |-> 0], TRUE)
NextDisposal ==
    \/ ClientInitiate \/ InitStep \/ ClientInitiationResult
    \/ ClientManualDeadline
    \/ E2EWebhookReceive \/ WebhookUpdate \/ WebhookLog
    \/ DispatchRead \/ DispatchDelivered \/ DispatchMark
    \/ ClientSnapshot \/ ClientInitialFetch \/ ClientEmailResult \/ ClientEffect
    \/ ClientRedirectTimerFires
    \/ ClientDispose
SpecDisposal == InitDisposal /\ [][NextDisposal]_vars

\* Signals: the client coordinator with one initiation, one manual poll and
\* one webhook delivery.  Server handlers that have started run on, the
\* client's callbacks run when their events are pending, and the timers fire;
\* what the user and the gateway start is not forced.
InitSignals == InitWith([webhook |-> 1, poll |-> 1, init |-> 1,
                         dispatch |-> 0, resend |-> 0], TRUE)
NextSignals ==
    \/ ClientInitiate \/ InitStep \/ ClientInitiationResult
    \/ ClientManualDeadline \/ ClientCheckStatus \/ PollStep
    \/ E2EWebhookReceive \/ WebhookStep
    \/ ClientSnapshot \/ ClientInitialFetch \/ ClientEffect
    \/ ClientRedirectTimerFires
FairSignals ==
    /\ WF_vars(InitStep) /\ WF_vars(PollStep) /\ WF_vars(WebhookStep)
    /\ WF_vars(ClientInitiationResult) /\ WF_vars(ClientManualDeadline)
    /\ WF_vars(ClientSnapshot) /\ WF_vars(ClientInitialFetch)
    /\ WF_vars(ClientEffect) /\ WF_vars(ClientRedirectTimerFires)
SpecSignals == InitSignals /\ [][NextSignals]_vars /\ FairSignals

\* Operations: an initiation, a manual poll and a resend, one request after
\* another, with a webhook delivery.  The steps a handler takes by itself, the
\* store's and the e-mail service's answers are taken when enabled; the
\* gateway's answer to axios.post, which is called without a timeout, is not
\* forced to come.
SeqResendStart == Quiescent /\ ResendStart
InitOwnStep == InitPending \/ InitStkSent \/ InitLog \/ InitRejected \/ InitCatch
PollOwnStep == PollLogCheck \/ PollUpdate \/ PollLogConfirmed
InitOperations == InitWith([webhook |-> 1, poll |-> 1, init |-> 1,
                            dispatch |-> 0, resend |-> 1], FALSE)
NextOperations ==
    \/ SeqInitStart \/ InitStep
    \/ SeqPollStart \/ PollStep
    \/ SeqWebhookReceive \/ WebhookStep
    \/ SeqResendStart \/ ResendStep
FairOperations ==
    /\ WF_vars(InitOwnStep) /\ WF_vars(PollOwnStep)
    /\ WF_vars(WebhookStep) /\ WF_vars(ResendStep)
SpecOperations == InitOperations /\ [][NextOperations]_vars /\ FairOperations

\* Failure evidence: one initiation, then a webhook delivery and a manual
\* poll one after another, where the gateway may also report the payment as
\* failed.
PollGatewayAnsweredOrFailed == PollGatewayAnsweredWith(StatusAnswers \cup {StatusFailed})
InitFailure == InitWith([webhook |-> 1, poll |-> 1, init |-> 1,
                         dispatch |-> 0, resend |-> 0], FALSE)
NextFailure ==
    \/ SeqInitStart \/ InitStep
    \/ SeqWebhookReceive \/ WebhookStep
    \/ SeqPollStart \/ PollGatewayAnsweredOrFailed \/ PollGatewayThrew
    \/ PollLogCheck \/ PollUpdate \/ PollLogConfirmed
SpecFailure == InitFailure /\ [][NextFailure]_vars

\* Callers of the poll: one initiation, then manual polls one after another
\* whose request id is any the caller chooses, of this ticket or of another.
SeqPollStartAnyRequest ==
    Quiescent /\ PollStartWith(1..gatewayRequests \cup OtherTicketRequestIds)
InitCallers == InitWith([webhook |-> 0, poll |-> 2, init |-> 1,
                         dispatch |-> 0, resend |-> 0], FALSE)
NextCallers ==
    \/ SeqInitStart \/ InitStep
    \/ SeqPollStartAnyRequest \/ PollStep
SpecCallers == InitCallers /\ [][NextCallers]_vars

\* A session of the page: one initiation from the component and one webhook
\* delivery; the user may press "Go to Ticket Status Now", and the page may be
\* given another ticketId.  Payments are initiated for the first ticket only.
ClientInitiateThisTicket == client.ticketId = TicketId /\ ClientInitiate
InitSession == InitWith([webhook |-> 1, poll |-> 0, init |-> 1,
                         dispatch |-> 0, resend |-> 0], TRUE)
NextSession ==
    \/ ClientInitiateThisTicket \/ InitStep \/ ClientInitiationResult
    \/ ClientManualDeadline
    \/ E2EWebhookReceive \/ WebhookUpdate \/ WebhookLog
    \/ ClientSnapshot \/ ClientInitialFetch \/ ClientEffect
    \/ ClientRedirectTimerFires \/ ClientGoNow
    \/ ClientTicketChanged
SpecSession == InitSession /\ [][NextSession]_vars

(* ------------------------------- claims ------------------------------- *)
\* Number of audit entries of a type.
EntriesOfType(type) ==
    Cardinality({i \in 1..Len(transactions) : transactions[i].type = type})

EvidenceCalls == BagToSet(webhookCalls) \cup BagToSet(pollCalls)

\* A step of a webhook or poll handler.
EvidenceStep == webhookCalls' # webhookCalls \/ pollCalls' # pollCalls

\* C1 (Spec): once the stored status has been 'confirmed', no later write of
\* a webhook, a poll or an initiation changes it to another value.
C1_ConfirmedIsFinal ==
    [][ticket.status = "confirmed" => ticket'.status = "confirmed"]_vars

\* C2 (Spec): of the confirmations that run concurrently, only one applies
\* the confirming write; no handler applies it over a ticket that another
\* handler has already confirmed.
C2_OneConfirmingWrite ==
    \A c \in EvidenceCalls : ~(c.applied /\ c.overwrote)

\* A handler carrying success evidence is at its last step.
SuccessFinishing ==
    \/ \E c \in BagToSet(webhookCalls) :
         /\ c.stkCallback.ResponseCode = 0
         /\ c.pc \in {"addDoc", "addDocIgnored"}
    \/ \E c \in BagToSet(pollCalls) : c.pc = "addDocConfirmed"

Duplicates ==
    {c \in Running(webhookCalls) :
        c.stkCallback.ResponseCode = 0 /\ c.currentTicketData.status = "confirmed"}

C6_SingleMarkingWrite ==
    Count(dispatchCalls, LAMBDA c : c.wrote /\ c.emailResult) <= 1

\* C7 (SpecRetry): over initiations, retries, confirmations and automatic
\* dispatch calls, one after another, the automatic path takes emailSent from
\* false to true at most once.
C7_AtMostOneAutomaticReceipt ==
    Count(dispatchCalls, LAMBDA c : c.flipped) <= 1

\* C8 (SpecE2E): in a run of one initiation followed by the gateway's
\* callback, with a subscribed client and deliveries that succeed, a confirmed
\* ticket with an e-mail address leads to emailSent = true with the audit log
\* holding exactly one initiation entry and one confirmation entry; the log
\* never holds more than one of either, and nothing else.
C8_ReceiptEventuallySent ==
    /\ (ticket.status = "confirmed" /\ ticket.email # NULL)
          ~> (/\ ticket.status = "confirmed"
              /\ ticket.emailSent
              /\ EntriesOfType("mpesa_stk_initiation") = 1
              /\ EntriesOfType("umeskia_mpesa_callback") = 1)
    /\ [](/\ EntriesOfType("mpesa_stk_initiation") <= 1
          /\ EntriesOfType("umeskia_mpesa_callback") <= 1
          /\ Len(transactions) <= 2)

\* C8 witness: the ticket of an initiation with an e-mail address was
\* confirmed by the callback, the client's dispatch call marked it, and the log
\* holds the two entries.
C8_Witness ==
    /\ ticket.status = "confirmed" /\ ticket.email = UserEmail /\ ticket.emailSent
    /\ \E c \in BagToSet(dispatchCalls) : c.caller = "clientReturned" /\ c.flipped
    /\ \E c \in BagToSet(webhookCalls) : c.pc = "done" /\ c.applied
    /\ EntriesOfType("mpesa_stk_initiation") = 1
    /\ EntriesOfType("umeskia_mpesa_callback") = 1

\* C9 (SpecEmail): an automatic dispatch call delivers only if the ticket it
\* read was confirmed, had an e-mail address and was not marked emailSent; a
\* call that read anything else has returned without a delivery and without a
\* write.
C9_DispatchGuard ==
    \A c \in BagToSet(dispatchCalls) :
        LET due == /\ c.ticketData.status = "confirmed"
                   /\ c.ticketData.email # NULL
                   /\ c.ticketData.emailSent = FALSE
        IN /\ (c.pc \in {"send", "updateDoc"} \/ c.sendCalled \/ c.wrote) => due
           /\ (c.pc # "getDoc" /\ ~due) =>
                 (c.pc = "done" /\ ~c.sendCalled /\ ~c.wrote)

\* C9 witness: one call has delivered, and another, which read the ticket as
\* already marked, has returned without delivery or write.
C9_Witness ==
    \E a, b \in BagToSet(dispatchCalls) :
        /\ a.sendCalled /\ a.wrote
        /\ b.pc = "done" /\ b.ticketData.status = "confirmed"
        /\ b.ticketData.email # NULL /\ b.ticketData.emailSent
        /\ ~b.sendCalled /\ ~b.wrote

\* C10 (SpecEmail): a resend call that read a confirmed ticket with an
\* e-mail address attempts the delivery whatever emailSent was, and records
\* the attempt: the count has grown by one for every call that has recorded its
\* outcome, and a failed delivery leaves the last error on the ticket.
C10_ResendAlwaysAttempts ==
    /\ \A c \in BagToSet(resendCalls) :
         /\ (c.ticketData.status = "confirmed" /\ c.ticketData.email # NULL) =>
               /\ c.pc # "done" \/ (c.sendCalled /\ c.wrote)
               /\ c.pc = "updateDoc" => c.sendCalled
         /\ (c.wrote /\ ~c.emailResult) => ticket.lastEmailError # NULL
         /\ c.wrote => c.sendCalled
    /\ ticket.resentEmailCount = Count(resendCalls, LAMBDA c : c.wrote)

\* C10 witness: a resend that read the ticket as already marked emailSent has
\* delivered and raised the count.
C10_Witness ==
    /\ \E c \in BagToSet(resendCalls) :
         /\ c.pc = "done" /\ c.ticketData.emailSent
         /\ c.sendCalled /\ c.wrote
    /\ ticket.resentEmailCount >= 1

\* C11 (SpecAck): every POST to the webhook endpoint is answered with a
\* success acknowledgement (HTTP 200), whatever the payload and whether or not
\* the processing threw.
C11_AlwaysAcknowledged ==
    \A c \in BagToSet(webhookCalls) : c.pc = "done" => c.response = 200

\* C12 (SpecAttempts): an initiation that read the ticket as 'confirmed'
\* writes nothing to the ticket, makes no gateway call and returns an error.
C12_ConfirmedTicketRejected ==
    \A c \in BagToSet(initCalls) :
        c.ticketSnap.status = "confirmed" =>
            /\ c.updateDocs = 0
            /\ c.gatewayCalls = 0
            /\ ~c.success

\* The sample inputs with an invalid phone, an invalid amount, or a ticket id
\* that names no ticket.
BadInput(params) ==
    \/ params.phone.text \in {"0812345678", "07123"}
    \/ params.amount.text \in {"0", "-5", "abc"}
    \/ params.ticketId # "T-1"

C14_InitiationFlow ==
    [][\A c \in Running(initCalls) :
         (c.ticketSnap.status # "confirmed" /\ initCalls' # initCalls) =>
            /\ c.pc = "updateDocPending" =>
                  /\ ticket'.status = "payment_pending_mpesa"
                  /\ ticket'.phone = c.params.phone.text
                  /\ c.params.email # NULL => ticket'.email = c.params.email
            /\ c.pc = "axios" => ticket' = ticket /\ ticket.status = "payment_pending_mpesa"
            /\ c.pc = "updateDocStkSent" =>
                  /\ c.transaction_request_id = gatewayRequests
                  /\ ticket'.status = "payment_stk_sent"
                  /\ ticket'.umeskiaTransactionRequestId = c.transaction_request_id
            /\ c.pc = "addDoc" =>
                  /\ ticket' = ticket
                  /\ \E d \in BagToSet(initCalls') :
                        /\ d.pc = "done" /\ d.success
                        /\ d.transaction_request_id = ticket.umeskiaTransactionRequestId
                        /\ ~(d \in BagToSet(initCalls) /\ CopiesIn(d, initCalls') = CopiesIn(d, initCalls))
            /\ c.pc \in {"updateDocFailed", "catchUpdateDoc"} =>
                  /\ ticket'.status \in {"payment_initiation_failed",
                                         "payment_initiation_error"}
                  /\ ticket'.errorDetails # NULL
                  /\ ticket'.umeskiaTransactionRequestId = ticket.umeskiaTransactionRequestId
                  /\ \A d \in BagToSet(initCalls') :
                        d.transaction_request_id = 0 => ~d.success]_vars

\* C14 witness: one initiation was rejected or failed and another was
\* accepted; the ticket holds the push-sent status and the accepted request id.
C14_Witness ==
    /\ Quiescent
    /\ ticket.status = "payment_stk_sent"
    /\ \E a, r \in BagToSet(initCalls) :
         /\ a.success /\ a.transaction_request_id = ticket.umeskiaTransactionRequestId
         /\ a.ticketSnap.status \in {"payment_initiation_failed", "payment_initiation_error"}
         /\ r.pc = "done" /\ ~r.success /\ r.gatewayCalls = 1

\* C15 (SpecAttempts): every initiation that reached the gateway step has
\* appended exactly one audit entry when it returns.
C15_OneEntryPerAttempt ==
    \A c \in BagToSet(initCalls) :
        (c.pc = "done" /\ c.gatewayCalls > 0) => c.addDocs = 1

\* C16 (SpecLogging): the audit log is append-only: every step leaves the
\* entries written so far in place and unchanged, so the log never shrinks and
\* a retry keeps the entries of earlier attempts.
C16_AppendOnly ==
    [][/\ Len(transactions') >= Len(transactions)
       /\ \A i \in 1..Len(transactions) : transactions'[i] = transactions[i]]_vars

\* C16 witness: the log holds the entries of an initiation, of its retry, of a
\* poll and of a webhook delivery.
C16_Witness ==
    /\ EntriesOfType("mpesa_stk_initiation") = 2
    /\ EntriesOfType("mpesa_status_check_api") >= 1
    /\ EntriesOfType("umeskia_mpesa_callback")
         + EntriesOfType("umeskia_mpesa_callback_ignored_already_confirmed") >= 1

\* Success evidence for a superseded request: its TransactionID is not the
\* request id the ticket holds.
SupersededSuccess(c) ==
    /\ c.stkCallback.ResponseCode = 0
    /\ c.TransactionID # ticket.umeskiaTransactionRequestId

\* C17 (SpecSuperseded): success evidence that the webhook receives for
\* an earlier, superseded request is processed like any other: its handler's
\* write confirms the ticket with the receipt of that evidence, and the ticket
\* is confirmed when the handler returns.
C17_SupersededEvidenceConfirms ==
    [][\A c \in Running(webhookCalls) :
         (SupersededSuccess(c) /\ webhookCalls' # webhookCalls) =>
            /\ ticket'.status = "confirmed"
            /\ c.pc = "updateDoc" =>
                 ticket'.mpesaReceiptNumber = c.stkCallback.TransactionReceipt
            /\ c.pc \in {"updateDoc", "addDocIgnored"}
                 \/ (c.pc = "addDoc" /\ c.applied)]_vars

\* C17 witness: a retry replaced the stored request id, and a callback naming
\* the first request was applied and confirmed the ticket.
C17_Witness ==
    /\ ticket.status = "confirmed"
    /\ ticket.umeskiaTransactionRequestId = 2
    /\ \E c \in BagToSet(webhookCalls) :
         /\ c.pc = "done" /\ c.applied /\ c.TransactionID = 1
         /\ c.currentTicketData.status = "payment_stk_sent"

\* C18: for one ticket the client coordinator schedules the redirect at most
\* once, however the subscription push, the initial read and a manual poll
\* interleave in reporting status 'confirmed'.
C18_RedirectScheduledOnce == client.scheduled <= 1

\* C19: once the coordinator has entered Confirmed and started the redirect
\* timer, the timer is not cancelled by the re-evaluation of the subscription
\* effect (it stays pending until it fires), and the destination is opened at
\* most once.
C19_RedirectTimerSurvives ==
    [][/\ client.redirectTimer = "pending" => client'.redirectTimer \in {"pending", "fired"}
       /\ client'.opened <= 1]_vars

\* The states entered, leaving out the wait for the gateway's response.
EnteredStates ==
    SelectSeq(client.entered, LAMBDA s : s # "AwaitingGatewayResponse")

EventsStartWith(events) ==
    /\ Len(client.events) >= Len(events)
    /\ SubSeq(client.events, 1, Len(events)) = events

\* C20: when the events the coordinator receives are, in this order, the
\* success of the initiation, the manual-actions deadline and a subscription
\* push reporting 'confirmed', it passes through Idle, AwaitingConfirmation,
\* ManualActionsAvailable and Confirmed in that order and enters each once; it
\* is in ManualActionsAvailable, with the manual actions shown, from the
\* deadline to the push.
C20_CoordinatorSequence ==
    /\ client.events = <<"initiateSuccess", "manualDeadline">> =>
          /\ EnteredStates = <<"Idle", "AwaitingConfirmation", "ManualActionsAvailable">>
          /\ CoordinatorState(client) = "ManualActionsAvailable"
          /\ client.showManualActions /\ client.paymentInitiationResult = "success"
    /\ EventsStartWith(<<"initiateSuccess", "manualDeadline", "pushConfirmed">>) =>
          /\ EnteredStates = <<"Idle", "AwaitingConfirmation", "ManualActionsAvailable",
                               "Confirmed">>
          /\ CoordinatorState(client) = "Confirmed"

\* C20 witness: the three events arrived in that order and the coordinator is
\* in Confirmed, the manual actions hidden again.
C20_Witness ==
    /\ EventsStartWith(<<"initiateSuccess", "manualDeadline", "pushConfirmed">>)
    /\ CoordinatorState(client) = "Confirmed"
    /\ ~client.showManualActions
    /\ client.manualActionsTimer = "none"

\* C21: whenever the client coordinator is in Confirmed, no manual-actions
\* deadline timer is pending and the manual actions are not shown, whichever
\* signal confirmed and also when the initiation's response arrives after the
\* confirmation.
C21_ConfirmedHasNoFallback ==
    CoordinatorState(client) = "Confirmed" =>
        /\ client.manualActionsTimer # "pending"
        /\ ~client.showManualActions

\* C22: after the client coordinator is torn down (or its ticket identifier
\* changes) no subscription to the ticket remains, and no deadline or redirect
\* timer of that ticket is started or fires, also when an initiation call was
\* in flight at the moment of disposal.
C22_NothingAfterDisposal ==
    [][~client.subscribed =>
          /\ ~client'.snapshotPending
          /\ client'.manualActionsTimer = client.manualActionsTimer
          /\ client'.redirectTimer = client.redirectTimer
          /\ client.manualActionsTimer # "pending"
          /\ client.redirectTimer # "pending"]_vars

\* A manual poll has returned isConfirmed = true.
PollReturnedConfirmed ==
    \E c \in BagToSet(pollCalls) : c.pc = "done" /\ c.isConfirmed

\* C23: a manual poll that returns isConfirmed = true is followed by the
\* client coordinator entering Confirmed.
C23_PollLeadsToConfirmed ==
    PollReturnedConfirmed ~> (CoordinatorState(client) = "Confirmed")

\* C24: every initiation, manual poll and resend that was started eventually
\* returns, also when the gateway never answers: from some point on no such
\* call is waiting.
C24_OperationsReturn ==
    <>[](/\ Running(initCalls) = {}
         /\ Running(pollCalls) = {}
         /\ Running(resendCalls) = {})

\* The call c of the bag takes a step.
Steps(c, calls, calls2) == CopiesIn(c, calls2) < CopiesIn(c, calls)

\* C25: automatic dispatch writes emailSent = true only in the step that
\* follows a delivery attempt of the same call that returned success: the steps
\* before the attempt write nothing, and after a failed attempt emailSent is
\* left as it is.
C25_MarkOnlyAfterDelivery ==
    [][\A c \in Running(dispatchCalls) :
          Steps(c, dispatchCalls, dispatchCalls') =>
             /\ c.pc \in {"getDoc", "send"} => ticket' = ticket
             /\ c.pc = "updateDoc" /\ ~c.emailResult =>
                   ticket'.emailSent = ticket.emailSent
             /\ ticket'.emailSent # ticket.emailSent =>
                   /\ c.pc = "updateDoc" /\ c.sendCalled /\ c.emailResult
                   /\ ticket'.emailSent]_vars

\* C25 witness: one automatic dispatch has recorded a failed delivery, leaving
\* emailSent false, and another has then marked the ticket after its delivery.
C25_Witness ==
    /\ \E c \in BagToSet(dispatchCalls) :
          c.pc = "done" /\ c.sendCalled /\ ~c.emailResult /\ c.wrote
    /\ \E c \in BagToSet(dispatchCalls) :
          c.pc = "done" /\ c.sendCalled /\ c.emailResult /\ c.flipped
    /\ ticket.emailSent /\ ticket.lastEmailError # NULL

\* The fields of the ticket that record e-mail attempts.
EmailBookkeeping == {"lastEmailAttemptAt", "lastEmailError", "resentEmailCount"}

\* The write of call c after a failed delivery touches bookkeeping only, and
\* records the attempt and the error.
FailureRecorded(c, calls, calls2) ==
    (Steps(c, calls, calls2) /\ c.pc = "updateDoc" /\ ~c.emailResult) =>
        /\ \A f \in DOMAIN ticket \ EmailBookkeeping : ticket'[f] = ticket[f]
        /\ ticket'.lastEmailAttemptAt # NULL
        /\ ticket'.lastEmailError # NULL

\* C26: a failed e-mail delivery, in automatic dispatch or in resend, leaves
\* the status, the receipt fields and every other field of the ticket as they
\* are; only the last attempt time, the last error and the resend count are
\* written.
C26_FailedDeliveryFrame ==
    [][/\ \A c \in Running(dispatchCalls) :
             FailureRecorded(c, dispatchCalls, dispatchCalls')
             /\ (Steps(c, dispatchCalls, dispatchCalls') /\ c.pc = "updateDoc"
                  /\ ~c.emailResult => ticket'.resentEmailCount = ticket.resentEmailCount)
       /\ \A c \in Running(resendCalls) :
             FailureRecorded(c, resendCalls, resendCalls')]_vars

\* C26 witness: on a confirmed ticket holding a receipt and marked as sent, a
\* resend has recorded a failed delivery, and an automatic dispatch had
\* recorded one before.
C26_Witness ==
    /\ ticket.status = "confirmed" /\ ticket.mpesaReceiptNumber # NULL
    /\ ticket.emailSent
    /\ ticket.lastEmailError = "Failed to resend ticket email."
    /\ ticket.resentEmailCount = 1
    /\ \E c \in BagToSet(resendCalls) : c.pc = "done" /\ c.wrote /\ ~c.emailResult
    /\ \E c \in BagToSet(dispatchCalls) :
          c.pc = "done" /\ c.sendCalled /\ c.wrote /\ ~c.emailResult

\* C27: a webhook payload that does not match the expected evidence shape is
\* rejected without a write to the ticket, and the rejection is recorded as an
\* audit entry.
C27_MalformedLogged ==
    \A c \in BagToSet(webhookCalls) :
        (c.pc = "done" /\ c.payload \in {"unparseable", "invalid"}) =>
            /\ ~c.applied
            /\ c.addDocs = 1

NonTerminal(status) == status \notin {"confirmed", "failed"}

\* C28: failure evidence that finds the ticket in a non-terminal status sets
\* the status to 'failed' and stores the error detail, whether it is a webhook
\* callback with a non-zero ResponseCode or the answer to a status poll that
\* reports the payment as failed.
C28_FailureEvidenceApplied ==
    [][/\ \A c \in Running(webhookCalls) :
             (/\ Steps(c, webhookCalls, webhookCalls')
              /\ c.pc = "updateDoc" /\ c.stkCallback.ResponseCode # 0
              /\ NonTerminal(c.currentTicketData.status)) =>
                 /\ ticket'.status = "failed"
                 /\ ticket'.mpesaResultDesc = c.stkCallback.ResponseDescription
       /\ \A c \in Running(pollCalls) :
             (/\ Steps(c, pollCalls, pollCalls')
              /\ c.pc = "addDocCheck" /\ c.statusApiResult.TransactionStatus = "Failed"
              /\ NonTerminal(c.currentTicketData.status)) =>
                 /\ ticket'.status = "failed"
                 /\ ticket'.mpesaResultDesc = c.statusApiResult.ResultDesc]_vars

\* C29: failure evidence that finds the ticket already 'failed' is
\* short-circuited like a duplicate on a confirmed ticket: the handler issues
\* no write to the ticket, and the one audit entry it appends is marked
\* ignored.
C29_FailedDuplicateIgnored ==
    [][\A c \in Running(webhookCalls) :
          (/\ Steps(c, webhookCalls, webhookCalls')
           /\ c.currentTicketData.status = "failed"
           /\ c.stkCallback.ResponseCode # 0) =>
              /\ c.pc # "updateDoc"
              /\ ticket' = ticket
              /\ transactions' # transactions =>
                    transactions'[Len(transactions')] = IgnoredCallbackEntry]_vars

\* C30: a status poll returns isConfirmed = true only if the ticket it read
\* was 'confirmed' or it has itself written 'confirmed' (which its write always
\* does); a poll that does neither returns isConfirmed = false.
C30_IsConfirmedFaithful ==
    [][/\ \A c \in BagToSet(pollCalls') :
             (c.pc = "done" /\ c.isConfirmed) =>
                 /\ c.success
                 /\ c.currentTicketData.status = "confirmed" \/ c.applied
       /\ \A c \in Running(pollCalls) :
             Steps(c, pollCalls, pollCalls') =>
                 /\ c.pc = "updateDoc" => ticket'.status = "confirmed"
                 /\ c.pc # "updateDoc" => ticket' = ticket]_vars

\* C30 witness: a poll that read 'payment_stk_sent' was answered Completed,
\* wrote 'confirmed' and returned isConfirmed = true.
C30_Witness ==
    \E c \in BagToSet(pollCalls) :
        /\ c.pc = "done" /\ c.isConfirmed /\ c.applied
        /\ c.currentTicketData.status = "payment_stk_sent"
        /\ ticket.status = "confirmed"

\* C31: a status poll confirms the ticket only with gateway evidence that
\* belongs to it: a poll that writes 'confirmed' queried a request id issued by
\* an initiation of this ticket, so a completed payment made for another
\* ticket cannot confirm it.
C31_EvidenceBelongsToTicket ==
    \A c \in BagToSet(pollCalls) :
        c.applied => c.umeskiaTransactionRequestId \in 1..gatewayRequests

\* C32: the client coordinator is in Confirmed for its current ticket only if
\* the stored status of that same ticket has been observed as 'confirmed':
\* once the ticket identifier has changed to a ticket that is not confirmed and
\* the component has received the new ticket's document, the coordinator is
\* not in Confirmed.
C32_ConfirmedIsOfCurrentTicket ==
    (/\ client.ticketId = OtherTicketId
     /\ OtherTicket.status # "confirmed"
     /\ ~client.snapshotPending /\ ~client.fetchPending
     /\ ~EffectDependenciesChanged(client)) =>
        CoordinatorState(client) # "Confirmed"

\* C34: in the client coordinator at most one redirect timer is pending at any
\* time: every scheduling of the redirect, the "go now" button included, first
\* cancels the timer held in the redirect handle.
C34_OneRedirectTimer == PendingRedirectTimers(client) <= 1

\* C34 witness: the redirect was scheduled more than once, the last time while
\* an earlier timer had not fired, and one timer is pending.
C34_Witness ==
    /\ client.scheduled >= 2
    /\ client.opened = 0
    /\ PendingRedirectTimers(client) = 1

\* C33: whenever the stored ticket status is 'confirmed' and no handler is
\* part-way through its steps, the audit log holds at least one confirmation
\* entry for the ticket (a callback entry with status 'confirmed' or a
\* status-confirmed entry): a confirming write is always followed by its audit
\* entry.
C33_ConfirmedHasAuditEntry ==
    (ticket.status = "confirmed" /\ Quiescent) =>
        \E i \in 1..Len(transactions) :
            transactions[i] \in {CallbackEntry("confirmed"), StatusConfirmedEntry}
====
